---------------------------- MODULE Spec2Model ----------------------------
(***************************************************************************)
(* Block Zapper: the attribute classifier (getCategorizedAttributes), the  *)
(* recursive tree cleaner (createCleanBlock, zapBlocks) and the handlers   *)
(* and component state (handleZap, handleOptionChange, the zap button) of  *)
(* the Edit component.  The repository holds three revisions of it:        *)
(*   "0.1.0"  src/src/edit.js lines 41-601    (allow list by category)     *)
(*   "0.2.0"  src/src/edit.js lines 642-1305  (Mega allow list, Selective  *)
(*            deny list)                                                   *)
(*   "0.3.0"  src/unnamed/part_000            (explicit allow list)        *)
(* A block's attribute map is a sequence of [key, value] entries in        *)
(* Object.keys order, keys distinct.  createBlock and replaceBlock belong  *)
(* to the host editor: createBlock throws for a block type that is not     *)
(* registered and returns the attributes it is given together with the     *)
(* defaults the block type declares for the keys it is not given.          *)
(***************************************************************************)
EXTENDS Integers, Sequences, FiniteSets, TLC

VARIABLES
    revision,       \* which revision of the Edit component is loaded
    zapMode,        \* useState 'selective' | 'mega'
    zapOptions,     \* useState: the six category flags and keepMedia
    attributes,     \* the attribute map handed to getCategorizedAttributes
    categorized,    \* its return value
    pc,             \* "ready" before the call, "classified" after it
    hostDefaults,   \* the default attributes the host's block types declare
    innerBlocks,    \* the blocks inside the container, as the editor store holds them
    blocksArg,      \* the blocks argument of the last zapBlocks call
    cleanResults,   \* what createCleanBlock returned for each of them, in order
    report,         \* the value the last zapBlocks call returned
    replaceCalls,   \* the replaceBlock calls of the last zapBlocks call, in order
    zapCount,       \* number of zapBlocks calls made
    outsideBlocks,  \* the blocks of the editor store that are not in the container
    replaceThrows,  \* the clientIds for which the host's replaceBlock throws
    isZapping,      \* useState false
    zapMessage,     \* useState '': which message the component shows
    lastZapTime,    \* useState null: "null", or "time" once a zap has run
    savedAttributes \* props.attributes: the zap* attributes saved on the block

classifierVars == << attributes, categorized, pc >>

zapVars == << innerBlocks, blocksArg, cleanResults, report, replaceCalls, zapCount >>

hostVars == << outsideBlocks, replaceThrows >>

editorVars == << isZapping, zapMessage, lastZapTime, savedAttributes >>

vars == << revision, zapMode, zapOptions, attributes, categorized, pc, hostDefaults,
           innerBlocks, blocksArg, cleanResults, report, replaceCalls, zapCount,
           outsideBlocks, replaceThrows, isZapping, zapMessage, lastZapTime,
           savedAttributes >>

Revisions == { "0.1.0", "0.2.0", "0.3.0" }

ZapModes == { "selective", "mega" }

OptionNames ==
    { "blockSettings", "blockStyles", "customProperties", "keepMedia",
      "customClasses", "customAnchors", "htmlElements" }

ZapOptions == [ OptionNames -> BOOLEAN ]

(* ----------------------------- category tables ------------------------- *)

categories_010 ==
    [
      essential |->
        { "content", "url", "alt", "caption", "href", "text", "level", "tagName", "value",
          "label", "placeholder", "title", "type", "checked", "selected", "disabled",
          "required", "multiple", "name", "id", "headers", "scope" },
      media |->
        { "src", "poster", "preload", "autoplay", "controls", "loop", "muted", "playsInline",
          "crossOrigin", "sizeSlug", "blob", "mediaId", "mediaType", "focalPoint",
          "hasParallax", "isRepeated", "minHeight", "minHeightUnit" },
      blockSettings |->
        { "orientation", "verticalAlignment", "templateLock", "allowedBlocks", "layout",
          "templateInsertUpdatesSelection" },
      blockStyles |->
        { "backgroundColor", "textColor", "customBackgroundColor", "customTextColor",
          "gradient", "customGradient", "overlayColor", "customOverlayColor" },
      customProperties |->
        { "fontSize", "customFontSize", "fontFamily", "fontStyle", "fontWeight",
          "letterSpacing", "textDecoration", "textTransform", "lineHeight", "style", "margin",
          "padding", "blockGap", "borderColor", "customBorderColor", "borderRadius",
          "borderWidth", "borderStyle", "shadow", "filter", "width", "height", "aspectRatio",
          "scale", "position", "zIndex", "top", "right", "bottom", "left" },
      customClasses |->
        { "className" },
      customAnchors |->
        { "anchor" },
      htmlElements |->
        { "align", "nodeName" } ]

categories_020 ==
    [
      essential |->
        { "content", "url", "alt", "caption", "href", "text", "level", "tagName", "value",
          "label", "placeholder", "title", "type", "checked", "selected", "disabled",
          "required", "multiple", "name", "id", "headers", "scope" },
      media |->
        { "src", "poster", "preload", "autoplay", "controls", "loop", "muted", "playsInline",
          "crossOrigin", "sizeSlug", "blob", "mediaId", "mediaType", "focalPoint",
          "hasParallax", "isRepeated", "minHeight", "minHeightUnit", "aspectRatio", "width",
          "height", "scale" },
      blockSettings |->
        { "orientation", "verticalAlignment", "templateLock", "allowedBlocks", "layout",
          "templateInsertUpdatesSelection" },
      blockStyles |->
        { "backgroundColor", "textColor", "customBackgroundColor", "customTextColor",
          "gradient", "customGradient", "overlayColor", "customOverlayColor" },
      customProperties |->
        { "fontSize", "customFontSize", "fontFamily", "fontStyle", "fontWeight",
          "letterSpacing", "textDecoration", "textTransform", "lineHeight", "style", "margin",
          "padding", "blockGap", "borderColor", "customBorderColor", "borderRadius",
          "borderWidth", "borderStyle", "shadow", "filter", "position", "zIndex", "top",
          "right", "bottom", "left" },
      customClasses |->
        { "className" },
      customAnchors |->
        { "anchor" },
      htmlElements |->
        { "align", "nodeName" } ]

essentialContent ==
    { "content", "href", "text", "level", "tagName", "value", "label", "placeholder",
      "title", "type", "checked", "selected", "disabled", "required", "multiple", "name",
      "headers", "scope" }

getMediaAttributes ==
    { "src", "srcset", "sizes", "alt", "caption", "id", "url", "linkDestination",
      "linkTarget", "rel", "poster", "preload", "autoplay", "controls", "loop", "muted",
      "playsInline", "crossOrigin", "sizeSlug", "blob", "mediaId", "mediaType",
      "mediaUrl", "aspectRatio", "width", "height", "scale", "linkClass", "linkText",
      "showDownloadButton", "downloadButtonText", "style", "mediaPosition", "mediaAlt",
      "mediaWidth", "mediaHeight", "mediaSize", "mediaSizes", "mediaSrcset", "videoId",
      "videoUrl", "videoAlt", "videoPoster", "videoAutoplay", "videoLoop", "videoMuted",
      "videoControls", "videoPreload", "imageId", "imageUrl", "imageAlt", "imageCaption",
      "imageWidth", "imageHeight", "imageSize", "imageSizes", "imageSrcset",
      "imageFocalPoint", "backgroundImage", "backgroundPosition", "backgroundSize",
      "backgroundRepeat", "backgroundAttachment", "backgroundClip", "backgroundOrigin",
      "focalPoint", "hasParallax", "isRepeated", "useFeaturedImage", "backgroundType",
      "overlayColor", "customOverlayColor", "dimRatio", "gradient", "customGradient",
      "metadata", "layout", "minHeight", "minHeightUnit", "icon", "iconName",
      "iconLibrary", "iconSet", "iconSize", "iconColor", "iconBackgroundColor",
      "iconBorderColor", "iconBorderRadius", "iconBorderWidth", "iconPadding",
      "iconMargin", "iconRotation", "iconFlip", "iconAlign", "iconLink", "iconLinkTarget",
      "iconLinkRel", "iconCustomSvg", "iconCustomPath", "iconCustomViewBox",
      "iconCustomWidth", "iconCustomHeight" }

blockSettingsList ==
    { "orientation", "verticalAlignment", "templateLock", "allowedBlocks", "layout",
      "templateInsertUpdatesSelection" }

blockStylesList ==
    { "backgroundColor", "textColor", "customBackgroundColor", "customTextColor",
      "gradient", "customGradient", "overlayColor", "customOverlayColor" }

customPropertiesList ==
    { "fontSize", "customFontSize", "fontFamily", "fontStyle", "fontWeight",
      "letterSpacing", "textDecoration", "textTransform", "lineHeight", "margin",
      "padding", "blockGap", "borderColor", "customBorderColor", "borderRadius",
      "borderWidth", "borderStyle", "shadow", "filter", "position", "zIndex", "top",
      "right", "bottom", "left" }

customClassesList ==
    { "className" }

customAnchorsList ==
    { "anchor" }

htmlElementsList ==
    { "align", "nodeName" }

(* ------------------------- attribute-map helpers ----------------------- *)

\* Object.keys( attributes ) as a set
Keys(attrs) == { attrs[i].key : i \in DOMAIN attrs }

\* the entries of attrs whose key is in keep, in Object.keys order
\* mutation of Pick: the kept keys are assigned true instead of their value
Pick_AssignsTrue(attrs, keep) ==
    LET kept == SelectSeq(attrs, LAMBDA e : e.key \in keep)
    IN  [ i \in DOMAIN kept |-> [ key |-> kept[i].key, value |-> << "true" >> ] ]

Pick(attrs, keep) == SelectSeq(attrs, LAMBDA e : e.key \in keep)

\* the keys of attrs that are not in keep, in Object.keys order
Drop(attrs, keep) ==
    LET rest == SelectSeq(attrs, LAMBDA e : e.key \notin keep)
    IN  [ i \in DOMAIN rest |-> rest[i].key ]

(* --------------------- revision 0.1.0: edit.js 111-201 ----------------- *)

\* mutation of UnflaggedKeys: the htmlElements branch is missing
UnflaggedKeys_NoHtmlElements(categories, opts) ==
    UNION { IF opts[c] THEN {} ELSE categories[c] :
            c \in OptionNames \ { "keepMedia", "htmlElements" } }

UnflaggedKeys(categories, opts) ==
    UNION { IF opts[c] THEN {} ELSE categories[c] :
            c \in OptionNames \ { "keepMedia" } }

\* mutation of getCategorizedAttributes_010: a deny list, keys outside every
\* table are kept
getCategorizedAttributes_010_DenyList(attrs, isMegaZap, keepMedia, opts) ==
    LET listed == UNION { categories_010[c] : c \in DOMAIN categories_010 }
        toKeep == categories_010.essential
                  \cup (IF keepMedia THEN categories_010.media ELSE {})
                  \cup (IF isMegaZap THEN {}
                        ELSE UNION { IF opts[c] THEN {} ELSE categories_010[c] :
                                     c \in OptionNames \ { "keepMedia" } })
                  \cup (Keys(attrs) \ listed)
    IN  [ cleanedAttributes |-> Pick(attrs, toKeep),
          removedAttributes |-> Drop(attrs, toKeep) ]

\* mutation of getCategorizedAttributes_010: the Mega branch keeps the custom
\* classes
getCategorizedAttributes_010_MegaKeepsClasses(attrs, isMegaZap, keepMedia, opts) ==
    LET toKeep == categories_010.essential
                  \cup (IF keepMedia THEN categories_010.media ELSE {})
                  \cup (IF isMegaZap THEN categories_010.customClasses
                        ELSE UnflaggedKeys(categories_010, opts))
    IN  [ cleanedAttributes |-> Pick(attrs, toKeep),
          removedAttributes |-> Drop(attrs, toKeep) ]

getCategorizedAttributes_010(attrs, isMegaZap, keepMedia, opts) ==
    LET toKeep == categories_010.essential
                  \cup (IF keepMedia THEN categories_010.media ELSE {})
                  \cup (IF isMegaZap THEN {}
                        ELSE UnflaggedKeys(categories_010, opts))
    IN  [ cleanedAttributes |-> Pick(attrs, toKeep),
          removedAttributes |-> Drop(attrs, toKeep) ]

(* --------------------- revision 0.2.0: edit.js 713-892 ----------------- *)

\* mutation of toRemove_020: the customAnchors branch is missing
toRemove_020_NoAnchors(keepMedia, opts) ==
    LET guarded(c) == IF opts[c]
                      THEN { a \in categories_020[c] :
                             ~ (keepMedia /\ a \in categories_020.media) }
                      ELSE {}
        plain(c)   == IF opts[c] THEN categories_020[c] ELSE {}
    IN  guarded("blockSettings") \cup guarded("blockStyles")
        \cup guarded("customProperties") \cup plain("customClasses")
        \cup plain("htmlElements")

\* the keys the Selective branch marks for removal (STEP 3)
toRemove_020(keepMedia, opts) ==
    LET guarded(c) == IF opts[c]
                      THEN { a \in categories_020[c] :
                             ~ (keepMedia /\ a \in categories_020.media) }
                      ELSE {}
        plain(c)   == IF opts[c] THEN categories_020[c] ELSE {}
    IN  guarded("blockSettings") \cup guarded("blockStyles")
        \cup guarded("customProperties") \cup plain("customClasses")
        \cup plain("customAnchors") \cup plain("htmlElements")

\* mutation of getCategorizedAttributes_020: the Mega branch skips STEP 2 and
\* keeps the essential keys only (the defect 0.2.0 was released to fix)
getCategorizedAttributes_020_MegaDropsMedia(attrs, isMegaZap, keepMedia, opts) ==
    IF isMegaZap
    THEN LET toKeep == categories_020.essential \cap Keys(attrs)
         IN  [ cleanedAttributes |-> Pick(attrs, toKeep),
               removedAttributes |-> Drop(attrs, toKeep) ]
    ELSE LET toKeep   == categories_020.essential
                         \cup (IF keepMedia THEN categories_020.media ELSE {})
             kept     == { k \in Keys(attrs) :
                           ~ (k \in toRemove_020(keepMedia, opts) /\ k \notin toKeep) }
         IN  [ cleanedAttributes |-> Pick(attrs, kept),
               removedAttributes |-> Drop(attrs, kept) ]

getCategorizedAttributes_020(attrs, isMegaZap, keepMedia, opts) ==
    IF isMegaZap
    THEN LET toKeep == (categories_020.essential \cap Keys(attrs))
                       \cup (IF keepMedia
                             THEN categories_020.media \cap Keys(attrs)
                             ELSE {})
         IN  [ cleanedAttributes |-> Pick(attrs, toKeep),
               removedAttributes |-> Drop(attrs, toKeep) ]
    ELSE LET toKeep   == categories_020.essential
                         \cup (IF keepMedia THEN categories_020.media ELSE {})
             toRemove == toRemove_020(keepMedia, opts)
             kept     == { k \in Keys(attrs) : ~ (k \in toRemove /\ k \notin toKeep) }
         IN  [ cleanedAttributes |-> Pick(attrs, kept),
               removedAttributes |-> Drop(attrs, kept) ]

(* -------------------- revision 0.3.0: part_000 129-226 ----------------- *)

SelectiveAllowed(opts) ==
    (IF opts.blockSettings THEN {} ELSE blockSettingsList)
    \cup (IF opts.blockStyles THEN {} ELSE blockStylesList)
    \cup (IF opts.customProperties THEN {} ELSE customPropertiesList)
    \cup (IF opts.customClasses THEN {} ELSE customClassesList)
    \cup (IF opts.customAnchors THEN {} ELSE customAnchorsList)
    \cup (IF opts.htmlElements THEN {} ELSE htmlElementsList)

\* mutation of getAllowList: the essential keys are added in the Selective
\* branch only
getAllowList_NoEssentialInMega(isMegaZap, keepMedia, opts) ==
    (IF keepMedia THEN getMediaAttributes ELSE {})
    \cup (IF isMegaZap THEN {} ELSE essentialContent \cup SelectiveAllowed(opts))

\* mutation of getAllowList: the Mega branch adds the media keys without
\* testing keepMedia
getAllowList_MegaAlwaysMedia(isMegaZap, keepMedia, opts) ==
    essentialContent
    \cup (IF isMegaZap \/ keepMedia THEN getMediaAttributes ELSE {})
    \cup (IF isMegaZap THEN {} ELSE SelectiveAllowed(opts))

\* mutation of getAllowList: a flagged category deletes its keys from the
\* allow list, so removal wins over media protection
getAllowList_RemovalWins(isMegaZap, keepMedia, opts) ==
    (essentialContent
     \cup (IF keepMedia THEN getMediaAttributes ELSE {})
     \cup (IF isMegaZap THEN {} ELSE SelectiveAllowed(opts)))
    \ (IF isMegaZap THEN {}
       ELSE (IF opts.blockSettings THEN blockSettingsList ELSE {})
            \cup (IF opts.blockStyles THEN blockStylesList ELSE {}))

\* mutation of getAllowList: the Mega branch adds the unflagged categories
\* like the Selective branch does
getAllowList_MegaHonoursFlags(isMegaZap, keepMedia, opts) ==
    essentialContent
    \cup (IF keepMedia THEN getMediaAttributes ELSE {})
    \cup SelectiveAllowed(opts)

getAllowList(isMegaZap, keepMedia, opts) ==
    essentialContent
    \cup (IF keepMedia THEN getMediaAttributes ELSE {})
    \cup (IF isMegaZap THEN {} ELSE SelectiveAllowed(opts))

\* mutation of getCategorizedAttributes_030: the removed list is built from a
\* second allow list that always holds the media keys
getCategorizedAttributes_030_TwoLists(attrs, isMegaZap, keepMedia, opts) ==
    [ cleanedAttributes |-> Pick(attrs, getAllowList(isMegaZap, keepMedia, opts)),
      removedAttributes |-> Drop(attrs, getAllowList(isMegaZap, TRUE, opts)) ]

getCategorizedAttributes_030(attrs, isMegaZap, keepMedia, opts) ==
    LET allowList == getAllowList(isMegaZap, keepMedia, opts)
    IN  [ cleanedAttributes |-> Pick(attrs, allowList),
          removedAttributes |-> Drop(attrs, allowList) ]

(* ------------------------- the loaded revision ------------------------- *)

\* mutation of Categorize: with Selective mode and none of the six flags set
\* the classifier does not run and hands the attributes back untouched
Categorize_RefusesNothingSelected(rev, attrs, isMegaZap, keepMedia, opts) ==
    IF ~ isMegaZap /\ ~ opts.blockSettings /\ ~ opts.blockStyles
         /\ ~ opts.customProperties /\ ~ opts.customClasses
         /\ ~ opts.customAnchors /\ ~ opts.htmlElements
    THEN [ cleanedAttributes |-> attrs, removedAttributes |-> << >> ]
    ELSE CASE rev = "0.1.0" -> getCategorizedAttributes_010(attrs, isMegaZap, keepMedia, opts)
           [] rev = "0.2.0" -> getCategorizedAttributes_020(attrs, isMegaZap, keepMedia, opts)
           [] rev = "0.3.0" -> getCategorizedAttributes_030(attrs, isMegaZap, keepMedia, opts)

Categorize(rev, attrs, isMegaZap, keepMedia, opts) ==
    CASE rev = "0.1.0" -> getCategorizedAttributes_010(attrs, isMegaZap, keepMedia, opts)
      [] rev = "0.2.0" -> getCategorizedAttributes_020(attrs, isMegaZap, keepMedia, opts)
      [] rev = "0.3.0" -> getCategorizedAttributes_030(attrs, isMegaZap, keepMedia, opts)

\* getCategorizedAttributes reads zapOptions from the enclosing component state
getCategorizedAttributes(attrs, isMegaZap, keepMedia) ==
    Categorize(revision, attrs, isMegaZap, keepMedia, zapOptions)

(* ------------- the category tables as the revisions hold them --------- *)

CategoryNames ==
    { "essential", "media", "blockSettings", "blockStyles", "customProperties",
      "customClasses", "customAnchors", "htmlElements" }

RemovableCategories == CategoryNames \ { "essential", "media" }

\* the keys revision rev lists under category c
CategoryKeys(rev, c) ==
    CASE rev = "0.1.0" -> categories_010[c]
      [] rev = "0.2.0" -> categories_020[c]
      [] rev = "0.3.0" ->
           CASE c = "essential"        -> essentialContent
             [] c = "media"            -> getMediaAttributes
             [] c = "blockSettings"    -> blockSettingsList
             [] c = "blockStyles"      -> blockStylesList
             [] c = "customProperties" -> customPropertiesList
             [] c = "customClasses"    -> customClassesList
             [] c = "customAnchors"    -> customAnchorsList
             [] c = "htmlElements"     -> htmlElementsList

AllTableKeys == UNION { CategoryKeys(rev, c) : rev \in Revisions, c \in CategoryNames }

\* a key in none of revision rev's tables
Unknown(rev, k) == \A c \in CategoryNames : k \notin CategoryKeys(rev, c)

\* one entry of an attribute map
Entry(k) == [ key |-> k, value |-> << "value of", k >> ]

(* ------------------------------ block trees ---------------------------- *)

\* a block object of the editor store; clientId << >> and name "" stand for a
\* missing clientId and a missing name
Block(id, name, attrs, inner) ==
    [ clientId |-> id, name |-> name, attributes |-> attrs, innerBlocks |-> inner ]

\* a null entry in a block list
Null == [ null |-> TRUE ]

IsNull(block) == DOMAIN block = { "null" }

getBlockAttributes(block) ==
    IF IsNull(block) THEN << >> ELSE block.attributes

\* block types the host has no registration for: createBlock throws for them
UnregisteredNames == { "acme/unregistered" }

\* the block types the host has a registration for
RegisteredNames == { "core/group", "core/paragraph" }

\* the default value a block type declares for an attribute
DefaultEntry(k) == [ key |-> k, value |-> << "default of", k >> ]

\* a host whose block types declare no defaults
NoDefaults == [ n \in RegisteredNames |-> << >> ]

\* a host whose paragraph type declares a default for dropCap
ParagraphDefaults ==
    [ n \in RegisteredNames |->
        IF n = "core/paragraph" THEN << DefaultEntry("dropCap") >> ELSE << >> ]

Hosts == { NoDefaults, ParagraphDefaults }

\* the attributes createBlock returns for a registered type: the ones passed
\* to it, followed by the type's declared defaults for the keys not passed
WithDefaults(name, attrs) ==
    attrs \o SelectSeq(hostDefaults[name], LAMBDA d : d.key \notin Keys(attrs))

\* uuid() of the host, as a function of the block the new one is built from
FreshId(id) == Append(id, Len(id))

\* createBlock( name, attributes, innerBlocks ) of @wordpress/blocks, given
\* the uuid it draws; defined only for registered names
createBlock(name, attrs, inner, uuid) ==
    Block(uuid, name, WithDefaults(name, attrs), inner)

NullResult == << >>

RECURSIVE createCleanBlock_Shallow(_, _, _)

\* mutation of createCleanBlock: the inner blocks are handed to createBlock
\* as they are instead of being cleaned one by one
createCleanBlock_Shallow(block, isMegaZap, keepMedia) ==
    IF IsNull(block) \/ block.name = ""
    THEN NullResult
    ELSE LET cat == getCategorizedAttributes(getBlockAttributes(block),
                                             isMegaZap, keepMedia)
         IN  IF block.name \in UnregisteredNames
             THEN NullResult
             ELSE << [ cleanBlock |-> createBlock(block.name, cat.cleanedAttributes,
                                                  block.innerBlocks,
                                                  FreshId(block.clientId)),
                       removedAttributes |-> cat.removedAttributes ] >>

RECURSIVE createCleanBlock_InPlace(_, _, _)

\* mutation of createCleanBlock: the block passed in is stripped and
\* returned, keeping its clientId, instead of a new block being created
createCleanBlock_InPlace(block, isMegaZap, keepMedia) ==
    IF IsNull(block) \/ block.name = ""
    THEN NullResult
    ELSE LET cat == getCategorizedAttributes(getBlockAttributes(block),
                                             isMegaZap, keepMedia)
             RECURSIVE cleanInner(_)
             cleanInner(inner) ==
                 IF inner = << >>
                 THEN << >>
                 ELSE LET cleanedInner == createCleanBlock_InPlace(Head(inner),
                                                                   isMegaZap, keepMedia)
                      IN  (IF cleanedInner # NullResult
                           THEN << cleanedInner[1].cleanBlock >>
                           ELSE << >>)
                          \o cleanInner(Tail(inner))
         IN  IF block.name \in UnregisteredNames
             THEN NullResult
             ELSE << [ cleanBlock |-> Block(block.clientId, block.name,
                                            cat.cleanedAttributes,
                                            cleanInner(block.innerBlocks)),
                       removedAttributes |-> cat.removedAttributes ] >>

RECURSIVE createCleanBlock_KeepsMalformed(_, _, _)

\* mutation of createCleanBlock: an inner block for which the recursive call
\* returns null is pushed as it is instead of being left out
createCleanBlock_KeepsMalformed(block, isMegaZap, keepMedia) ==
    IF IsNull(block) \/ block.name = ""
    THEN NullResult
    ELSE LET cat == getCategorizedAttributes(getBlockAttributes(block),
                                             isMegaZap, keepMedia)
             RECURSIVE cleanInner(_)
             cleanInner(inner) ==
                 IF inner = << >>
                 THEN << >>
                 ELSE LET cleanedInner ==
                              createCleanBlock_KeepsMalformed(Head(inner), isMegaZap,
                                                              keepMedia)
                      IN  (IF cleanedInner # NullResult
                           THEN << cleanedInner[1].cleanBlock >>
                           ELSE << Head(inner) >>)
                          \o cleanInner(Tail(inner))
         IN  IF block.name \in UnregisteredNames
             THEN NullResult
             ELSE << [ cleanBlock |-> createBlock(block.name, cat.cleanedAttributes,
                                                  cleanInner(block.innerBlocks),
                                                  FreshId(block.clientId)),
                       removedAttributes |-> cat.removedAttributes ] >>

RECURSIVE createCleanBlock_NullOnEmpty(_, _, _)

\* mutation of createCleanBlock: a block without attributes is treated like
\* a malformed one and null is returned for it
createCleanBlock_NullOnEmpty(block, isMegaZap, keepMedia) ==
    IF IsNull(block) \/ block.name = "" \/ getBlockAttributes(block) = << >>
    THEN NullResult
    ELSE LET cat == getCategorizedAttributes(getBlockAttributes(block),
                                             isMegaZap, keepMedia)
             RECURSIVE cleanInner(_)
             cleanInner(inner) ==
                 IF inner = << >>
                 THEN << >>
                 ELSE LET cleanedInner ==
                              createCleanBlock_NullOnEmpty(Head(inner), isMegaZap,
                                                           keepMedia)
                      IN  (IF cleanedInner # NullResult
                           THEN << cleanedInner[1].cleanBlock >>
                           ELSE << >>)
                          \o cleanInner(Tail(inner))
         IN  IF block.name \in UnregisteredNames
             THEN NullResult
             ELSE << [ cleanBlock |-> createBlock(block.name, cat.cleanedAttributes,
                                                  cleanInner(block.innerBlocks),
                                                  FreshId(block.clientId)),
                       removedAttributes |-> cat.removedAttributes ] >>

RECURSIVE createCleanBlock(_, _, _)

\* returns << >> for null, else << [ cleanBlock, removedAttributes ] >>
createCleanBlock(block, isMegaZap, keepMedia) ==
    IF IsNull(block) \/ block.name = ""
    THEN NullResult
    ELSE LET cat == getCategorizedAttributes(getBlockAttributes(block),
                                             isMegaZap, keepMedia)
             RECURSIVE cleanInner(_)
             cleanInner(inner) ==
                 IF inner = << >>
                 THEN << >>
                 ELSE LET cleanedInner == createCleanBlock(Head(inner), isMegaZap,
                                                           keepMedia)
                      IN  (IF cleanedInner # NullResult
                           THEN << cleanedInner[1].cleanBlock >>
                           ELSE << >>)
                          \o cleanInner(Tail(inner))
             cleanedInnerBlocks == cleanInner(block.innerBlocks)
         IN  IF block.name \in UnregisteredNames
             THEN NullResult
             ELSE << [ cleanBlock |-> createBlock(block.name, cat.cleanedAttributes,
                                                  cleanedInnerBlocks,
                                                  FreshId(block.clientId)),
                       removedAttributes |-> cat.removedAttributes ] >>

\* block.name.replace( 'core/', '' ), 'unknown' for a missing name
blockNameOf(block) ==
    CASE block.name = ""                  -> "unknown"
      [] block.name = "core/group"        -> "group"
      [] block.name = "core/paragraph"    -> "paragraph"
      [] OTHER                            -> block.name

EmptyReport == [ totalZapped |-> 0, zapDetails |-> << >>, totalAttributesRemoved |-> 0 ]

\* the accumulators of zapBlocks before its first loop
ZapStart == [ totalZapped |-> 0, zapDetails |-> << >>, totalAttributesRemoved |-> 0,
              replacements |-> << >> ]

\* mutation of ZapBody: the detail entry is put in front of the earlier ones
ZapBody_DetailsUnshift(acc, block, isMegaZap, keepMedia) ==
    IF IsNull(block) \/ block.clientId = << >>
    THEN acc
    ELSE LET blockName    == blockNameOf(block)
             beforeCount  == Len(getBlockAttributes(block))
             result       == createCleanBlock(block, isMegaZap, keepMedia)
         IN  IF result = NullResult
             THEN acc
             ELSE LET cleanBlock   == result[1].cleanBlock
                      removedAttrs == result[1].removedAttributes
                      afterCount   == Len(cleanBlock.attributes)
                      removedCount == beforeCount - afterCount
                  IN  IF removedCount > 0 \/ Len(removedAttrs) > 0
                      THEN [ totalZapped |-> acc.totalZapped + 1,
                             totalAttributesRemoved |->
                                 acc.totalAttributesRemoved + removedCount,
                             zapDetails |->
                                 << [ name |-> blockName,
                                      before |-> beforeCount,
                                      after |-> afterCount,
                                      removed |-> removedCount,
                                      removedAttributes |-> removedAttrs ] >>
                                 \o acc.zapDetails,
                             replacements |-> Append(acc.replacements,
                                 [ originalId |-> block.clientId,
                                   newBlock |-> cleanBlock ]) ]
                      ELSE acc

\* mutation of ZapBody: a block counts as changed only when its attribute
\* count went down
ZapBody_CountOnly(acc, block, isMegaZap, keepMedia) ==
    IF IsNull(block) \/ block.clientId = << >>
    THEN acc
    ELSE LET blockName    == blockNameOf(block)
             beforeCount  == Len(getBlockAttributes(block))
             result       == createCleanBlock(block, isMegaZap, keepMedia)
         IN  IF result = NullResult
             THEN acc
             ELSE LET cleanBlock   == result[1].cleanBlock
                      removedAttrs == result[1].removedAttributes
                      afterCount   == Len(cleanBlock.attributes)
                      removedCount == beforeCount - afterCount
                  IN  IF removedCount > 0
                      THEN [ totalZapped |-> acc.totalZapped + 1,
                             totalAttributesRemoved |->
                                 acc.totalAttributesRemoved + removedCount,
                             zapDetails |-> Append(acc.zapDetails,
                                 [ name |-> blockName,
                                   before |-> beforeCount,
                                   after |-> afterCount,
                                   removed |-> removedCount,
                                   removedAttributes |-> removedAttrs ]),
                             replacements |-> Append(acc.replacements,
                                 [ originalId |-> block.clientId,
                                   newBlock |-> cleanBlock ]) ]
                      ELSE acc

\* mutation of ZapBody: a block whose construction failed is still given a
\* detail entry with the keys the classifier removed
ZapBody_ReportsFailed(acc, block, isMegaZap, keepMedia) ==
    IF IsNull(block) \/ block.clientId = << >>
    THEN acc
    ELSE LET blockName    == blockNameOf(block)
             beforeCount  == Len(getBlockAttributes(block))
             result       == createCleanBlock(block, isMegaZap, keepMedia)
             removedAttrs == IF result = NullResult
                             THEN getCategorizedAttributes(getBlockAttributes(block),
                                      isMegaZap, keepMedia).removedAttributes
                             ELSE result[1].removedAttributes
             afterCount   == IF result = NullResult
                             THEN beforeCount - Len(removedAttrs)
                             ELSE Len(result[1].cleanBlock.attributes)
             removedCount == beforeCount - afterCount
         IN  IF block.name = "" \/ (removedCount <= 0 /\ Len(removedAttrs) = 0)
             THEN acc
             ELSE [ totalZapped |-> acc.totalZapped + 1,
                    totalAttributesRemoved |->
                        acc.totalAttributesRemoved + removedCount,
                    zapDetails |-> Append(acc.zapDetails,
                        [ name |-> blockName,
                          before |-> beforeCount,
                          after |-> afterCount,
                          removed |-> removedCount,
                          removedAttributes |-> removedAttrs ]),
                    replacements |->
                        IF result = NullResult
                        THEN acc.replacements
                        ELSE Append(acc.replacements,
                                    [ originalId |-> block.clientId,
                                      newBlock |-> result[1].cleanBlock ]) ]

\* the body of blocks.forEach in zapBlocks, for one block
ZapBody(acc, block, isMegaZap, keepMedia) ==
    IF IsNull(block) \/ block.clientId = << >>
    THEN acc
    ELSE LET blockName    == blockNameOf(block)
             beforeCount  == Len(getBlockAttributes(block))
             result       == createCleanBlock(block, isMegaZap, keepMedia)
         IN  IF result = NullResult
             THEN acc
             ELSE LET cleanBlock   == result[1].cleanBlock
                      removedAttrs == result[1].removedAttributes
                      afterCount   == Len(cleanBlock.attributes)
                      removedCount == beforeCount - afterCount
                  IN  IF removedCount > 0 \/ Len(removedAttrs) > 0
                      THEN [ totalZapped |-> acc.totalZapped + 1,
                             totalAttributesRemoved |->
                                 acc.totalAttributesRemoved + removedCount,
                             zapDetails |-> Append(acc.zapDetails,
                                 [ name |-> blockName,
                                   before |-> beforeCount,
                                   after |-> afterCount,
                                   removed |-> removedCount,
                                   removedAttributes |-> removedAttrs ]),
                             replacements |-> Append(acc.replacements,
                                 [ originalId |-> block.clientId,
                                   newBlock |-> cleanBlock ]) ]
                      ELSE acc

RECURSIVE ZapLoop_Uncaught(_, _, _, _)

\* mutation of ZapLoop: a createBlock exception is not caught and leaves the
\* forEach, so nothing is replaced or reported
ZapLoop_Uncaught(acc, blocks, isMegaZap, keepMedia) ==
    IF blocks = << >>
    THEN acc
    ELSE IF /\ ~ IsNull(Head(blocks))
            /\ Head(blocks).clientId # << >>
            /\ Head(blocks).name \in UnregisteredNames
         THEN ZapStart
         ELSE ZapLoop_Uncaught(ZapBody(acc, Head(blocks), isMegaZap, keepMedia),
                               Tail(blocks), isMegaZap, keepMedia)

RECURSIVE ZapLoop(_, _, _, _)

\* blocks.forEach( ... ) of zapBlocks
ZapLoop(acc, blocks, isMegaZap, keepMedia) ==
    IF blocks = << >>
    THEN acc
    ELSE ZapLoop(ZapBody(acc, Head(blocks), isMegaZap, keepMedia), Tail(blocks),
                 isMegaZap, keepMedia)

\* replaceBlock( originalId, newBlock ) of the core/block-editor store, on the
\* container's block list
replaceBlock(store, originalId, newBlock) ==
    [ i \in DOMAIN store |->
        IF ~ IsNull(store[i]) /\ store[i].clientId = originalId
        THEN newBlock
        ELSE store[i] ]

\* the host's replaceBlock throws for this clientId and leaves the store as
\* it is
Throws(originalId) == originalId \in replaceThrows

RECURSIVE ApplyReplacements_Uncaught(_, _)

\* mutation of ApplyReplacements: an exception of replaceBlock is not caught
\* and ends the forEach
ApplyReplacements_Uncaught(store, replacements) ==
    IF replacements = << >>
    THEN store
    ELSE IF Throws(Head(replacements).originalId)
         THEN store
         ELSE ApplyReplacements_Uncaught(
                  replaceBlock(store, Head(replacements).originalId,
                               Head(replacements).newBlock),
                  Tail(replacements))

RECURSIVE ApplyReplacements(_, _)

\* replacements.forEach( ... ) of zapBlocks on a block list of the store:
\* each replaceBlock call sits in its own try, a throwing one changes nothing
ApplyReplacements(store, replacements) ==
    IF replacements = << >>
    THEN store
    ELSE ApplyReplacements(IF Throws(Head(replacements).originalId)
                           THEN store
                           ELSE replaceBlock(store, Head(replacements).originalId,
                                             Head(replacements).newBlock),
                           Tail(replacements))

\* mutation of getBlocks: select( 'core/block-editor' ).getBlocks() without
\* the clientId, which yields the blocks of the whole document
getBlocks_WholeDocument == outsideBlocks \o innerBlocks

\* useSelect: select( 'core/block-editor' ).getBlocks( clientId ), the
\* container's own inner blocks
getBlocks == innerBlocks

\* zapBlocks( innerBlocks, zapMode === 'mega', zapOptions.keepMedia ), as
\* handleZap calls it
zapBlocks ==
    LET blocks    == getBlocks
        isMegaZap == zapMode = "mega"
        keepMedia == zapOptions.keepMedia
        acc       == IF blocks = << >>
                     THEN ZapStart
                     ELSE ZapLoop(ZapStart, blocks, isMegaZap, keepMedia)
    IN  /\ blocksArg' = blocks
        /\ cleanResults' =
               [ i \in DOMAIN blocks |->
                   IF IsNull(blocks[i]) \/ blocks[i].clientId = << >>
                   THEN NullResult
                   ELSE createCleanBlock(blocks[i], isMegaZap, keepMedia) ]
        /\ replaceCalls' = acc.replacements
        /\ innerBlocks' = ApplyReplacements(innerBlocks, acc.replacements)
        /\ outsideBlocks' = ApplyReplacements(outsideBlocks, acc.replacements)
        /\ report' = [ totalZapped |-> acc.totalZapped,
                       zapDetails |-> acc.zapDetails,
                       totalAttributesRemoved |-> acc.totalAttributesRemoved ]
        /\ zapCount' = zapCount + 1

(* ------------------ inputs of the classifier specification ------------- *)

MaxAttrs == 2

\* keys that no revision lists in any table
UnknownKeys == { "dropCap" }

\* one key of every membership pattern across the three revisions' tables,
\* in a fixed Object.keys order
SampleKeys ==
    << "content", "url", "src", "width", "style", "backgroundImage",
       "backgroundColor", "gradient", "layout", "templateLock", "fontSize",
       "className", "anchor", "align", "dropCap" >>

\* the attribute maps the classifier is run on: every listed key alone, and
\* every combination of at most MaxAttrs sample keys
SampleAttributes ==
    { << Entry(k) >> : k \in AllTableKeys \cup UnknownKeys }
    \cup
    { SelectSeq([ i \in DOMAIN SampleKeys |-> Entry(SampleKeys[i]) ],
                LAMBDA e : e.key \in S) :
      S \in { T \in SUBSET { SampleKeys[i] : i \in DOMAIN SampleKeys } :
              Cardinality(T) <= MaxAttrs } }

NotCalled == [ cleanedAttributes |-> << >>, removedAttributes |-> << >> ]

(* ------------------------- the Edit component -------------------------- *)

\* what the useEffect on zapOptions hands to setAttributes
SavedFrom(opts) ==
    [ zapBlockSettings    |-> opts.blockSettings,
      zapBlockStyles      |-> opts.blockStyles,
      zapCustomProperties |-> opts.customProperties,
      zapKeepMedia        |-> opts.keepMedia,
      zapCustomClasses    |-> opts.customClasses,
      zapCustomAnchors    |-> opts.customAnchors,
      zapHtmlElements     |-> opts.htmlElements ]

\* the attributes of a block on which no zap attribute was saved yet
NothingSaved == [ a \in { } |-> TRUE ]

\* attributes[ a ] ?? true
OrTrue(attrs, a) == IF a \in DOMAIN attrs THEN attrs[a] ELSE TRUE

\* the useState initialiser of zapOptions
InitialOptions(attrs) ==
    [ blockSettings    |-> OrTrue(attrs, "zapBlockSettings"),
      blockStyles      |-> OrTrue(attrs, "zapBlockStyles"),
      customProperties |-> OrTrue(attrs, "zapCustomProperties"),
      keepMedia        |-> OrTrue(attrs, "zapKeepMedia"),
      customClasses    |-> OrTrue(attrs, "zapCustomClasses"),
      customAnchors    |-> OrTrue(attrs, "zapCustomAnchors"),
      htmlElements     |-> OrTrue(attrs, "zapHtmlElements") ]

\* the component state of the specifications that run the engine functions
\* on their own
NoEditor ==
    /\ isZapping = FALSE
    /\ zapMessage = ""
    /\ lastZapTime = "null"
    /\ savedAttributes = SavedFrom(zapOptions)

InitClassify ==
    /\ revision \in Revisions
    /\ zapMode \in ZapModes
    /\ zapOptions \in ZapOptions
    /\ attributes \in SampleAttributes
    /\ categorized = NotCalled
    /\ pc = "ready"
    /\ hostDefaults = NoDefaults
    /\ innerBlocks = << >>
    /\ blocksArg = << >>
    /\ cleanResults = << >>
    /\ report = EmptyReport
    /\ replaceCalls = << >>
    /\ zapCount = 0
    /\ outsideBlocks = << >>
    /\ replaceThrows = { }
    /\ NoEditor

\* one call getCategorizedAttributes( attributes, zapMode === 'mega',
\* zapOptions.keepMedia ), as createCleanBlock issues it
Classify ==
    /\ pc = "ready"
    /\ pc' = "classified"
    /\ categorized' = getCategorizedAttributes(attributes, zapMode = "mega",
                                               zapOptions.keepMedia)
    /\ UNCHANGED << revision, zapMode, zapOptions, attributes, hostDefaults >>
    /\ UNCHANGED zapVars
    /\ UNCHANGED hostVars
    /\ UNCHANGED editorVars

NextClassify == Classify

SpecClassify == InitClassify /\ [][NextClassify]_vars

(* --------------------- inputs of the zap specification ----------------- *)

MaxNodes == 3

MaxZaps == 2

\* the blocks the sample forests are built from: a group with a layout, a
\* styled paragraph with a drop cap set, a block without a name and a block
\* of an unregistered type
BlockTemplates ==
    { [ name |-> "core/group",
        attributes |-> << Entry("layout") >> ],
      [ name |-> "core/paragraph",
        attributes |-> << Entry("content"), Entry("backgroundColor"),
                          Entry("className"), Entry("dropCap") >> ],
      [ name |-> "", attributes |-> << Entry("className") >> ],
      [ name |-> "acme/unregistered",
        attributes |-> << Entry("content"), Entry("style") >> ] }

\* the sample blocks that hold inner blocks: the group and the block of an
\* unregistered type; the others are leaves
ContainerNames == { "core/group", "acme/unregistered" }

RECURSIVE Forests(_, _), Trees(_, _)

\* the trees of exactly n blocks, clientIds numbered from first in pre-order;
\* a null entry is a tree of one block
Trees(n, first) ==
    { Block(<< first >>, t.name, t.attributes, f) :
        t \in { u \in BlockTemplates : n = 1 \/ u.name \in ContainerNames },
        f \in Forests(n - 1, first + 1) }
    \cup (IF n = 1 THEN { Null } ELSE { })

\* the block lists of exactly n blocks in all, nested blocks included
Forests(n, first) ==
    IF n = 0
    THEN { << >> }
    ELSE UNION { { << t >> \o f : t \in Trees(k, first),
                                  f \in Forests(n - k, first + k) } :
                 k \in 1 .. n }

SampleForests == UNION { Forests(n, 1) : n \in 0 .. MaxNodes }

\* the flag settings of the zap specification: keepMedia free; in Selective
\* mode blockStyles free and the five other flags equal to each other and
\* checked only together with blockStyles; in Mega mode, which reads none
\* of the six, they are left at their useState defaults
SampleOptions ==
    { o \in ZapOptions :
        /\ \A c \in { "blockSettings", "customClasses", "customAnchors", "htmlElements" } :
              o[c] = o.customProperties
        /\ o.customProperties => o.blockStyles
        /\ zapMode = "mega" => o.customProperties }

InitZap ==
    /\ revision \in Revisions
    /\ zapMode \in ZapModes
    /\ zapOptions \in SampleOptions
    /\ attributes = << >>
    /\ categorized = NotCalled
    /\ pc = "ready"
    /\ hostDefaults \in Hosts
    /\ innerBlocks \in SampleForests
    /\ blocksArg = << >>
    /\ cleanResults = << >>
    /\ report = EmptyReport
    /\ replaceCalls = << >>
    /\ zapCount = 0
    /\ outsideBlocks = << >>
    /\ replaceThrows = { }
    /\ NoEditor

Zap ==
    /\ zapCount < MaxZaps
    /\ zapBlocks
    /\ UNCHANGED << revision, zapMode, zapOptions, hostDefaults, replaceThrows >>
    /\ UNCHANGED classifierVars
    /\ UNCHANGED editorVars

NextZap == Zap

SpecZap == InitZap /\ [][NextZap]_vars

(* ---------- the zap specification under a throwing replaceBlock -------- *)

\* the clientIds the host's replaceBlock throws for: the first block of the
\* container, or the block numbered second
ThrowChoices == { { << 1 >> }, { << 2 >> } }

InitReplace ==
    /\ revision \in Revisions
    /\ zapMode \in ZapModes
    /\ zapOptions \in SampleOptions
    /\ attributes = << >>
    /\ categorized = NotCalled
    /\ pc = "ready"
    /\ hostDefaults = NoDefaults
    /\ innerBlocks \in SampleForests
    /\ blocksArg = << >>
    /\ cleanResults = << >>
    /\ report = EmptyReport
    /\ replaceCalls = << >>
    /\ zapCount = 0
    /\ outsideBlocks = << >>
    /\ replaceThrows \in ThrowChoices
    /\ NoEditor

SpecReplace == InitReplace /\ [][NextZap]_vars

(* ------------------- the specifications of the editor ------------------ *)

MaxUiNodes == 1

\* the number of zapBlocks calls the editor specifications follow
MaxClicks == 1

\* the contents of the container in the editor specifications: up to
\* MaxUiNodes blocks of registered types standing next to each other
UiForests ==
    { f \in UNION { Forests(n, 1) : n \in 0 .. MaxUiNodes } :
        \A i \in DOMAIN f :
            /\ ~ IsNull(f[i])
            /\ f[i].name \in RegisteredNames
            /\ f[i].innerBlocks = << >> }

\* a styled paragraph of the document that stands outside the container
OutsideSample ==
    << Block(<< 0 >>, "core/paragraph",
             << Entry("content"), Entry("backgroundColor"), Entry("className"),
                Entry("dropCap") >>,
             << >>) >>

blockCount == Len(getBlocks)

\* mutation of hasDestructiveOptions: keepMedia counts as an option too
hasDestructiveOptions_CountsKeepMedia ==
    \E o \in OptionNames : zapOptions[o]

hasDestructiveOptions ==
    \/ zapOptions.blockSettings
    \/ zapOptions.blockStyles
    \/ zapOptions.customProperties
    \/ zapOptions.customClasses
    \/ zapOptions.customAnchors
    \/ zapOptions.htmlElements

\* getZapButtonProps(), the field the Button reads
getZapButtonProps ==
    IF zapMode = "mega"
    THEN [ disabled |-> isZapping \/ blockCount = 0 ]
    ELSE [ disabled |-> isZapping \/ blockCount = 0 \/ ~ hasDestructiveOptions ]

\* Object.entries( zapOptions ).some( ... ) of handleZap
hasAnyOption ==
    \E key \in OptionNames : key # "keepMedia" /\ zapOptions[key] = TRUE

\* handleZap(): setIsZapping( true ), the two early returns inside the try,
\* the zapBlocks call with its messages, and setIsZapping( false ) after the
\* try/catch, which the early returns do not reach
handleZap ==
    IF getBlocks = << >>
    THEN /\ isZapping' = TRUE
         /\ zapMessage' = "noBlocks"
         /\ UNCHANGED << lastZapTime, outsideBlocks >>
         /\ UNCHANGED zapVars
    ELSE IF zapMode # "mega" /\ ~ hasAnyOption
    THEN /\ isZapping' = TRUE
         /\ zapMessage' = "noOption"
         /\ UNCHANGED << lastZapTime, outsideBlocks >>
         /\ UNCHANGED zapVars
    ELSE /\ zapBlocks
         /\ lastZapTime' = "time"
         /\ zapMessage' = IF report'.totalZapped > 0 THEN "complete" ELSE "noChange"
         /\ isZapping' = FALSE

\* handleZap invoked, whatever the button shows
InvokeHandleZap ==
    /\ zapCount < MaxClicks
    /\ handleZap
    /\ UNCHANGED << revision, zapMode, zapOptions, hostDefaults, replaceThrows,
                    savedAttributes >>
    /\ UNCHANGED classifierVars

\* a click on the zap button: onClick={ handleZap } of a Button that is not
\* disabled
ClickZap ==
    /\ ~ getZapButtonProps.disabled
    /\ InvokeHandleZap

\* a checkbox changes: handleOptionChange( option, value ), followed by the
\* useEffect that saves zapOptions; the six category checkboxes are rendered
\* in Selective mode only
handleOptionChange(option, value) ==
    /\ option = "keepMedia" \/ zapMode = "selective"
    /\ zapOptions' = [ zapOptions EXCEPT ![option] = value ]
    /\ savedAttributes' = SavedFrom(zapOptions')
    /\ UNCHANGED << revision, zapMode, hostDefaults, isZapping, zapMessage,
                    lastZapTime >>
    /\ UNCHANGED classifierVars
    /\ UNCHANGED zapVars
    /\ UNCHANGED hostVars

\* the RadioControl changes: onChange={ setZapMode }
setZapMode(mode) ==
    /\ zapMode' = mode
    /\ UNCHANGED << revision, zapOptions, hostDefaults, isZapping, zapMessage,
                    lastZapTime, savedAttributes >>
    /\ UNCHANGED classifierVars
    /\ UNCHANGED zapVars
    /\ UNCHANGED hostVars

\* the timeout of the useEffect on zapMessage fires
ClearMessage ==
    /\ zapMessage # ""
    /\ zapMessage' = ""
    /\ UNCHANGED << revision, zapMode, zapOptions, hostDefaults, isZapping,
                    lastZapTime, savedAttributes >>
    /\ UNCHANGED classifierVars
    /\ UNCHANGED zapVars
    /\ UNCHANGED hostVars

\* the block is mounted again from its saved attributes: every useState runs
\* its initialiser and the useEffect on zapOptions saves them
Remount ==
    /\ isZapping' = FALSE
    /\ zapMessage' = ""
    /\ lastZapTime' = "null"
    /\ zapMode' = "selective"
    /\ zapOptions' = InitialOptions(savedAttributes)
    /\ savedAttributes' = SavedFrom(zapOptions')
    /\ UNCHANGED << revision, hostDefaults >>
    /\ UNCHANGED classifierVars
    /\ UNCHANGED zapVars
    /\ UNCHANGED hostVars

\* a new Block Zapper block is inserted and mounted
Init ==
    /\ revision \in Revisions
    /\ hostDefaults = NoDefaults
    /\ innerBlocks \in UiForests
    /\ outsideBlocks = OutsideSample
    /\ replaceThrows = { }
    /\ isZapping = FALSE
    /\ zapMessage = ""
    /\ lastZapTime = "null"
    /\ zapMode = "selective"
    /\ zapOptions = InitialOptions(NothingSaved)
    /\ savedAttributes = SavedFrom(zapOptions)
    /\ attributes = << >>
    /\ categorized = NotCalled
    /\ pc = "ready"
    /\ blocksArg = << >>
    /\ cleanResults = << >>
    /\ report = EmptyReport
    /\ replaceCalls = << >>
    /\ zapCount = 0

Next ==
    \/ ClickZap
    \/ \E option \in OptionNames, value \in BOOLEAN : handleOptionChange(option, value)
    \/ \E mode \in ZapModes : setZapMode(mode)
    \/ ClearMessage
    \/ Remount

\* the editor as the user drives it
Spec == Init /\ [][Next]_vars

NextHandler ==
    \/ InvokeHandleZap
    \/ \E option \in OptionNames, value \in BOOLEAN : handleOptionChange(option, value)
    \/ \E mode \in ZapModes : setZapMode(mode)
    \/ ClearMessage
    \/ Remount

\* the editor with handleZap invoked in any state, also where the button is
\* disabled
SpecHandler == Init /\ [][NextHandler]_vars

(* ======================= claims on the classifier ===================== *)

Present  == Keys(attributes)
Kept     == Keys(categorized.cleanedAttributes)
Removed  == { categorized.removedAttributes[i] : i \in DOMAIN categorized.removedAttributes }
IsMega   == zapMode = "mega"
Classified == pc = "classified"

\* the Essential category as the claims enumerate it
EssentialClaimed ==
    { "content", "url", "alt", "caption", "href", "text", "level", "tagName", "value",
      "label", "placeholder", "title", "type", "checked", "selected", "disabled",
      "required", "multiple", "name", "id", "headers", "scope" }

\* the four keys part_000 moved from its essential list to its media list
MovedToMedia == { "url", "alt", "caption", "id" }

C2_MediaMonotonicity ==
    (Classified /\ zapOptions.keepMedia) =>
        /\ \A k \in Present \cap CategoryKeys(revision, "media") :
              k \in Kept /\ k \notin Removed
        /\ Kept \cap CategoryKeys(revision, "media")
             = Keys(Categorize(revision, attributes, ~ IsMega, TRUE,
                               zapOptions).cleanedAttributes)
               \cap CategoryKeys(revision, "media")

C2_Witness ==
    /\ Classified
    /\ zapOptions.keepMedia
    /\ IsMega
    /\ Present = { "src", "fontSize" }
    /\ Kept = { "src" }
    /\ Removed = { "fontSize" }

\* C4: the keys of cleanedAttributes and the entries of removedAttributes are
\* disjoint, their union is exactly the key set of the input map, and no key
\* is listed twice.
C4_Partition ==
    Classified =>
        /\ Kept \cap Removed = {}
        /\ Kept \cup Removed = Present
        /\ Len(categorized.cleanedAttributes) + Len(categorized.removedAttributes)
             = Len(attributes)

C4_Witness ==
    /\ Classified
    /\ Kept # {}
    /\ Removed # {}
    /\ Len(attributes) = MaxAttrs

C6_MegaMinimality ==
    (Classified /\ IsMega /\ ~ zapOptions.keepMedia) =>
        /\ Kept = Present \cap CategoryKeys(revision, "essential")
        /\ Removed = Present \ CategoryKeys(revision, "essential")

C6_Witness ==
    /\ Classified
    /\ IsMega
    /\ ~ zapOptions.keepMedia
    /\ \E o \in OptionNames \ { "keepMedia" } : ~ zapOptions[o]
    /\ Present = { "content", "src" }
    /\ Kept = { "content" }
    /\ Removed = { "src" }

C8_UnflaggedKept ==
    (Classified /\ ~ IsMega) =>
        \A c \in RemovableCategories :
            \A k \in Present \cap CategoryKeys(revision, c) :
                /\ ~ zapOptions[c] => (k \in Kept /\ k \notin Removed)
                /\ (\A d \in CategoryNames \ { c } : k \notin CategoryKeys(revision, d))
                      => (k \in Kept <=> ~ zapOptions[c])

C8_Witness ==
    /\ Classified
    /\ ~ IsMega
    /\ ~ zapOptions.customClasses
    /\ zapOptions.blockStyles
    /\ Present = { "backgroundColor", "className" }
    /\ Kept = { "className" }
    /\ Removed = { "backgroundColor" }

\* a category survives: Essential always, Media iff keepMedia, any other iff
\* the mode is Selective and its flag is false
Survives(c) ==
    CASE c = "essential" -> TRUE
      [] c = "media"     -> zapOptions.keepMedia
      [] OTHER           -> ~ IsMega /\ ~ zapOptions[c]

CategoriesOf(rev, k) == { c \in CategoryNames : k \in CategoryKeys(rev, c) }

\* C9: a key that is in more than one category is kept whenever at least one
\* of its categories survives.
C9_UnionTieBreak ==
    Classified =>
        \A k \in Present :
            (/\ Cardinality(CategoriesOf(revision, k)) > 1
             /\ \E c \in CategoriesOf(revision, k) : Survives(c))
                => (k \in Kept /\ k \notin Removed)

C9_Witness ==
    /\ Classified
    /\ revision = "0.3.0"
    /\ ~ IsMega
    /\ ~ zapOptions.keepMedia
    /\ ~ zapOptions.blockSettings
    /\ zapOptions.blockStyles
    /\ Present = { "gradient", "layout" }
    /\ Kept = { "layout" }
    /\ Removed = { "gradient" }

\* C10: with keepMedia false a key on the media list that is in no surviving
\* category is removed, in Mega and in Selective mode, whatever the flags.
C10_MediaRemovedWithoutKeepMedia ==
    (Classified /\ ~ zapOptions.keepMedia) =>
        \A k \in Present \cap CategoryKeys(revision, "media") :
            (\A c \in CategoriesOf(revision, k) : ~ Survives(c))
                => (k \in Removed /\ k \notin Kept)

(* ====================== claims on the tree cleaner ==================== *)

RECURSIVE BlocksIn(_)

\* every block of a block list, at any nesting depth
BlocksIn(blocks) ==
    UNION { IF IsNull(blocks[i])
            THEN { blocks[i] }
            ELSE { blocks[i] } \cup BlocksIn(blocks[i].innerBlocks) :
            i \in DOMAIN blocks }

\* createCleanBlock builds a block for every block of the list: none is null,
\* nameless or of an unregistered type
AllConstructed(blocks) ==
    \A b \in BlocksIn(blocks) :
        ~ IsNull(b) /\ b.name # "" /\ b.name \notin UnregisteredNames

\* the keys of a block that the classifier removes under the current mode
\* and options
StillRemovable(b) ==
    getCategorizedAttributes(getBlockAttributes(b), zapMode = "mega",
                             zapOptions.keepMedia).removedAttributes

\* C3: after zapBlocks has run on the container's blocks with every
\* construction succeeding, no block inside the container, at any depth,
\* still holds a key the classifier removes for the chosen mode and options,
\* also when a top-level block has nothing to remove but a descendant has.
C3_CleaningReachesEveryDepth ==
    (zapCount > 0 /\ AllConstructed(blocksArg)) =>
        \A b \in BlocksIn(innerBlocks) : StillRemovable(b) = << >>

\* the clientId of the block a rebuilt block was built from
Origin(id) == SubSeq(id, 1, Len(id) - 1)

\* createCleanBlock's first test: a null entry or a block without a name
Malformed(b) == IsNull(b) \/ b.name = ""

\* a well-formed block whose construction fails
Fails(b) == ~ Malformed(b) /\ b.name \in UnregisteredNames

\* createCleanBlock returns null for the block itself
Dropped(b) == Malformed(b) \/ Fails(b)

\* the top-level blocks of the last call for which a block was built
Built == { i \in DOMAIN cleanResults : cleanResults[i] # NullResult }

\* C11: a second zap with the same mode and options on the blocks the first
\* zap left behind finds nothing to remove at any node and leaves the tree as
\* it is (stated for forests in which every construction succeeds, under a
\* host that adds no defaults).
C11_SecondPassRemovesNothing ==
    (zapCount = 2 /\ AllConstructed(blocksArg) /\ hostDefaults = NoDefaults) =>
        /\ \A b \in BlocksIn(blocksArg) : StillRemovable(b) = << >>
        /\ innerBlocks = blocksArg

RECURSIVE Preserves(_, _)

\* rebuilt has the name of orig and was built from it, and its inner blocks
\* are, one for one and in order, rebuilt from the inner blocks of orig for
\* which createCleanBlock does not return null
Preserves(orig, rebuilt) ==
    LET survivors == SelectSeq(orig.innerBlocks, LAMBDA c : ~ Dropped(c))
    IN  /\ rebuilt.name = orig.name
        /\ Origin(rebuilt.clientId) = orig.clientId
        /\ Len(rebuilt.innerBlocks) = Len(survivors)
        /\ \A j \in 1 .. Len(survivors) :
              /\ j \in DOMAIN rebuilt.innerBlocks
              /\ ~ IsNull(rebuilt.innerBlocks[j])
              /\ Preserves(survivors[j], rebuilt.innerBlocks[j])

\* C12: every block createCleanBlock rebuilds holds, at every depth, exactly
\* the rebuilt versions of the original inner blocks that were not dropped
\* (null, nameless or failed construction), in the original order, with no
\* placeholder, duplicate or extra child; with no child dropped the child
\* count is that of the original.
C12_StructurePreserved ==
    \A i \in Built : Preserves(blocksArg[i], cleanResults[i][1].cleanBlock)

\* a parent with two inner blocks is rebuilt with one: the first was dropped
\* and the second was rebuilt in its place
C12_Witness ==
    \E i \in Built :
        /\ Len(blocksArg[i].innerBlocks) = 2
        /\ Dropped(blocksArg[i].innerBlocks[1])
        /\ Len(cleanResults[i][1].cleanBlock.innerBlocks) = 1
        /\ Origin(cleanResults[i][1].cleanBlock.innerBlocks[1].clientId)
             = blocksArg[i].innerBlocks[2].clientId

\* the entries of an attribute map
Entries(attrs) == { attrs[i] : i \in DOMAIN attrs }

\* the blocks createCleanBlock built in the last call, at every depth
Rebuilt ==
    UNION { BlocksIn(<< cleanResults[i][1].cleanBlock >>) : i \in Built }

\* the blocks of the last call's argument a rebuilt block was built from
OriginalsOf(r) ==
    { o \in BlocksIn(blocksArg) : ~ IsNull(o) /\ o.clientId = Origin(r.clientId) }

ReplacedIds(calls) == { calls[j].originalId : j \in DOMAIN calls }

\* the clientIds of the blocks of a block list, at every depth
IdsIn(blocks) == { b.clientId : b \in { x \in BlocksIn(blocks) : ~ IsNull(x) } }

\* C14: cleaning does not touch what it is given: across a zap every block
\* of the store that no replaceBlock call names is afterwards the block it
\* was, attribute map and inner blocks included (also when createCleanBlock
\* built a clean version of it that was not used), and every block
\* createCleanBlock returns, at every depth, is a new block whose clientId no
\* block of the input carries.
C14_InputsNotMutated ==
    [][ /\ Len(innerBlocks') = Len(innerBlocks)
        /\ \A i \in DOMAIN innerBlocks :
              (IsNull(innerBlocks[i])
                 \/ innerBlocks[i].clientId \notin ReplacedIds(replaceCalls'))
              => innerBlocks'[i] = innerBlocks[i]
        /\ \A r \in Rebuilt' : r.clientId \notin IdsIn(innerBlocks) ]_vars

\* after a zap: a block with inner blocks was rebuilt by createCleanBlock,
\* not replaced, and is in the store as it was, next to a block that was
\* replaced
C14_Witness ==
    /\ zapCount > 0
    /\ \E i \in Built :
          /\ blocksArg[i].clientId \notin ReplacedIds(replaceCalls)
          /\ blocksArg[i].innerBlocks # << >>
          /\ innerBlocks[i] = blocksArg[i]
    /\ \E i \in Built :
          /\ blocksArg[i].clientId \in ReplacedIds(replaceCalls)
          /\ innerBlocks[i] = cleanResults[i][1].cleanBlock

\* what zapBlocks returns for the accumulators its loop ends with
ReportOf(acc) ==
    [ totalZapped |-> acc.totalZapped,
      zapDetails |-> acc.zapDetails,
      totalAttributesRemoved |-> acc.totalAttributesRemoved ]

\* the accumulators of a zapBlocks call on blocks under the current mode
\* and options
ZapOf(blocks) ==
    ZapLoop(ZapStart, blocks, zapMode = "mega", zapOptions.keepMedia)

RECURSIVE WithoutMalformed(_)

\* a block list with its malformed entries taken out, at every depth
WithoutMalformed(blocks) ==
    IF blocks = << >>
    THEN << >>
    ELSE (IF Malformed(Head(blocks))
          THEN << >>
          ELSE << [ Head(blocks) EXCEPT
                      !.innerBlocks = WithoutMalformed(@) ] >>)
         \o WithoutMalformed(Tail(blocks))

\* C15: a malformed node (null, or without a name) is skipped without
\* aborting the batch: createCleanBlock yields no block for it, no rebuilt
\* block contains it, and the replacements scheduled and the report returned
\* are those of the same forest with the malformed nodes taken out, so that
\* it adds nothing to the counts and its siblings and ancestors are treated
\* as if it were not there.
C15_MalformedSkipped ==
    zapCount > 0 =>
        /\ \A i \in DOMAIN blocksArg :
              Malformed(blocksArg[i]) => cleanResults[i] = NullResult
        /\ \A r \in Rebuilt : ~ Malformed(r)
        /\ replaceCalls = ZapOf(WithoutMalformed(blocksArg)).replacements
        /\ report = ReportOf(ZapOf(WithoutMalformed(blocksArg)))

\* a changed block holding one inner block, a null entry, is replaced by its
\* rebuilt version without it, and the changed sibling that follows is
\* replaced too
C15_Witness ==
    /\ zapCount = 1
    /\ report.totalZapped = 2
    /\ \E j, k \in Built :
          /\ j < k
          /\ blocksArg[j].innerBlocks = << Null >>
          /\ innerBlocks[j].innerBlocks = << >>
          /\ innerBlocks[j] = cleanResults[j][1].cleanBlock
          /\ innerBlocks[k] = cleanResults[k][1].cleanBlock

RECURSIVE WithoutFailed(_)

\* a block list with the blocks whose construction fails taken out, at
\* every depth
WithoutFailed(blocks) ==
    IF blocks = << >>
    THEN << >>
    ELSE (IF Fails(Head(blocks))
          THEN << >>
          ELSE IF IsNull(Head(blocks))
          THEN << Head(blocks) >>
          ELSE << [ Head(blocks) EXCEPT
                      !.innerBlocks = WithoutFailed(@) ] >>)
         \o WithoutFailed(Tail(blocks))

\* C16: a construction failure is isolated: when createBlock throws for a
\* node, createCleanBlock returns null for that node only, no rebuilt block
\* contains it, and the replacements scheduled and the report returned are
\* those of the same forest with the failing nodes taken out: siblings and
\* ancestors are processed to completion.
C16_FailureIsolated ==
    zapCount > 0 =>
        /\ \A i \in DOMAIN blocksArg :
              Fails(blocksArg[i]) => cleanResults[i] = NullResult
        /\ \A r \in Rebuilt : ~ Fails(r)
        /\ replaceCalls = ZapOf(WithoutFailed(blocksArg)).replacements
        /\ report = ReportOf(ZapOf(WithoutFailed(blocksArg)))

\* a block of an unregistered type comes first in the list and another lies
\* inside the changed block that follows: that block is replaced by its
\* rebuilt version without the failing inner block
C16_Witness ==
    /\ zapCount = 1
    /\ Len(blocksArg) = 2
    /\ Fails(blocksArg[1])
    /\ cleanResults[1] = NullResult
    /\ innerBlocks[1] = blocksArg[1]
    /\ 2 \in Built
    /\ Len(blocksArg[2].innerBlocks) = 1
    /\ Fails(blocksArg[2].innerBlocks[1])
    /\ innerBlocks[2] = cleanResults[2][1].cleanBlock
    /\ innerBlocks[2].innerBlocks = << >>
    /\ report.totalZapped = 1

\* the top-level blocks of the last call that reached createCleanBlock, were
\* classified with something to remove, and whose construction failed
FailedWithRemovals ==
    { i \in DOMAIN blocksArg :
        /\ Fails(blocksArg[i])
        /\ blocksArg[i].clientId # << >>
        /\ StillRemovable(blocksArg[i]) # << >> }

\* C17 as claimed: the removed-key list computed for a node whose
\* construction failed is still in the report of the zap.
C17_RemovedListReported_AsClaimed ==
    zapCount > 0 =>
        \A i \in FailedWithRemovals :
            \E d \in DOMAIN report.zapDetails :
                /\ report.zapDetails[d].name = blockNameOf(blocksArg[i])
                /\ report.zapDetails[d].removedAttributes
                     = StillRemovable(blocksArg[i])

\* C17: when construction of a node fails after its attributes were
\* classified, createCleanBlock returns null and the removed-key list goes
\* with it: the report holds no detail entry for the node, its keys are in
\* no total, and no replacement is scheduled for it.
C17_FailedNodeNotReported ==
    zapCount > 0 =>
        /\ \A i \in FailedWithRemovals :
              /\ cleanResults[i] = NullResult
              /\ blocksArg[i].clientId \notin ReplacedIds(replaceCalls)
              /\ \A d \in DOMAIN report.zapDetails :
                    report.zapDetails[d].name # blockNameOf(blocksArg[i])
        /\ report.totalZapped = Len(replaceCalls)
        /\ Len(report.zapDetails) = Len(replaceCalls)

\* a block of an unregistered type with a key to remove stands next to a
\* changed block: the report has the one entry of the changed block
C17_Witness ==
    /\ zapCount = 1
    /\ FailedWithRemovals # { }
    /\ Len(report.zapDetails) = 1
    /\ report.totalZapped = 1
    /\ Len(blocksArg) = 2

RECURSIVE TreeChangedCount(_)

\* the number of blocks of a block list, at every depth, from which the
\* classifier removes at least one key
TreeChangedCount(blocks) ==
    IF blocks = << >>
    THEN 0
    ELSE (IF ~ IsNull(Head(blocks)) /\ StillRemovable(Head(blocks)) # << >>
          THEN 1 ELSE 0)
         + (IF IsNull(Head(blocks)) THEN 0
            ELSE TreeChangedCount(Head(blocks).innerBlocks))
         + TreeChangedCount(Tail(blocks))

RECURSIVE TreeRemovedTotal(_)

\* the number of keys the classifier removes from the blocks of a block
\* list, at every depth
TreeRemovedTotal(blocks) ==
    IF blocks = << >>
    THEN 0
    ELSE Len(StillRemovable(Head(blocks)))
         + (IF IsNull(Head(blocks)) THEN 0
            ELSE TreeRemovedTotal(Head(blocks).innerBlocks))
         + TreeRemovedTotal(Tail(blocks))

\* C18: the report totals cover the whole tree: totalZapped is the number of
\* blocks, at any depth, with a non-empty removed list and
\* totalAttributesRemoved the sum of the removed-list lengths over all of
\* them, nested inner blocks included (stated for forests in which every
\* construction succeeds, under a host that adds no defaults).
C18_TotalsCoverWholeTree ==
    (zapCount > 0 /\ AllConstructed(blocksArg) /\ hostDefaults = NoDefaults) =>
        /\ report.totalZapped = TreeChangedCount(blocksArg)
        /\ report.totalAttributesRemoved = TreeRemovedTotal(blocksArg)

\* the top-level blocks of the last call that zapBlocks handed to
\* createCleanBlock and that the classifier was run on
ClassifiedTop ==
    { i \in DOMAIN blocksArg :
        ~ Malformed(blocksArg[i]) /\ blocksArg[i].clientId # << >> }

\* zapBlocks scheduled the replacement of the i-th block of its argument
Counted(i) == blocksArg[i].clientId \in ReplacedIds(replaceCalls)

\* C19 as claimed: zapBlocks counts a block, records a detail entry for it
\* and schedules its replacement exactly when getCategorizedAttributes
\* removed at least one of its keys.
C19_ChangedIffRemoved_AsClaimed ==
    zapCount > 0 =>
        /\ \A i \in ClassifiedTop :
              Counted(i) <=> StillRemovable(blocksArg[i]) # << >>
        /\ report.totalZapped = Len(replaceCalls)
        /\ Len(report.zapDetails) = Len(replaceCalls)

\* C19: zapBlocks counts a top-level block, records a detail entry for it
\* and schedules its replacement exactly when the block was rebuilt and
\* either getCategorizedAttributes removed at least one of its keys or the
\* rebuilt block has fewer attributes than the original; a block whose
\* construction failed is never counted, whatever was removed from it.
C19_ChangedIffRebuiltAndRemoved ==
    zapCount > 0 =>
        /\ \A i \in DOMAIN blocksArg :
              ~ IsNull(blocksArg[i]) =>
                  (Counted(i) <=>
                      /\ i \in ClassifiedTop
                      /\ ~ Fails(blocksArg[i])
                      /\ \/ StillRemovable(blocksArg[i]) # << >>
                         \/ Len(cleanResults[i][1].cleanBlock.attributes)
                              < Len(blocksArg[i].attributes))
        /\ \A i \in Built :
              Counted(i) <=>
                  \/ cleanResults[i][1].removedAttributes # << >>
                  \/ Len(cleanResults[i][1].cleanBlock.attributes)
                       < Len(blocksArg[i].attributes)
        /\ report.totalZapped = Len(replaceCalls)
        /\ Len(report.zapDetails) = Len(replaceCalls)

\* one zap over three top-level blocks: one rebuilt with keys removed and
\* counted, one rebuilt with nothing removed and not counted, one with keys
\* to remove whose construction failed and not counted
C19_Witness ==
    /\ zapCount = 1
    /\ Len(blocksArg) = 3
    /\ report.totalZapped = 1
    /\ \E i \in Built : Counted(i)
    /\ \E i \in Built : ~ Counted(i) /\ StillRemovable(blocksArg[i]) = << >>
    /\ \E i \in FailedWithRemovals : ~ Counted(i)

\* the positions, in order, of the top-level blocks of the last call that
\* were rebuilt with a non-empty removed list or with fewer attributes
ChangedTop ==
    SelectSeq([ i \in DOMAIN blocksArg |-> i ],
              LAMBDA i : /\ i \in Built
                         /\ \/ cleanResults[i][1].removedAttributes # << >>
                            \/ Len(cleanResults[i][1].cleanBlock.attributes)
                                 < Len(blocksArg[i].attributes))

ClassifiedAs(b) ==
    getCategorizedAttributes(getBlockAttributes(b), zapMode = "mega",
                             zapOptions.keepMedia)

\* C21: nothing to do is not an error: zapBlocks on a list of zero blocks
\* returns the report with totalZapped 0, totalAttributesRemoved 0 and no
\* details, issues no replaceBlock call and leaves the store empty; and a
\* block with an empty attribute map is classified with an empty kept map and
\* an empty removed list, a block is built for it like for any other
\* well-formed block of a registered type, with nothing listed as removed,
\* and it is not counted.
C21_NothingToDoIsNoError ==
    zapCount > 0 =>
        /\ blocksArg = << >> =>
              /\ report = [ totalZapped |-> 0, zapDetails |-> << >>,
                            totalAttributesRemoved |-> 0 ]
              /\ replaceCalls = << >>
              /\ innerBlocks = << >>
        /\ \A b \in BlocksIn(blocksArg) :
              getBlockAttributes(b) = << >> =>
                  /\ ClassifiedAs(b).cleanedAttributes = << >>
                  /\ ClassifiedAs(b).removedAttributes = << >>
        /\ \A i \in ClassifiedTop :
              (blocksArg[i].attributes = << >> /\ ~ Fails(blocksArg[i])) =>
                  /\ i \in Built
                  /\ cleanResults[i][1].removedAttributes = << >>
                  /\ cleanResults[i][1].cleanBlock.attributes
                       = hostDefaults[blocksArg[i].name]
                  /\ hostDefaults[blocksArg[i].name] = << >> => ~ Counted(i)

\* zapBlocks has been called on the empty list and returned the zero report
C21_Witness ==
    /\ zapCount = 1
    /\ blocksArg = << >>
    /\ report.totalZapped = 0
    /\ report.zapDetails = << >>
    /\ replaceCalls = << >>

\* a second zap runs over a block that the first left without attributes and
\* builds a block for it
C21_EmptyMapReached ==
    /\ zapCount = 2
    /\ \E i \in Built : blocksArg[i].attributes = << >> /\ ~ Counted(i)

(* ============ claims on what the flags and the mode decide ============ *)

\* none of the six category checkboxes is checked
NoneSelected == \A c \in RemovableCategories : ~ zapOptions[c]

RemovedKeys(cat) == { cat.removedAttributes[i] : i \in DOMAIN cat.removedAttributes }

\* the classifier run on the same attribute map in the given mode and with
\* the given options
Reclassified(isMegaZap, opts) ==
    Categorize(revision, attributes, isMegaZap, opts.keepMedia, opts)

\* C29: Mega ignores the six category flags: for the attribute map and the
\* keepMedia value of a Mega call, the kept map and the removed list are the
\* same for each of the 64 settings of the six flags.
C29_MegaIgnoresFlags ==
    (Classified /\ IsMega) =>
        \A o \in ZapOptions :
            o.keepMedia = zapOptions.keepMedia =>
                Reclassified(TRUE, o) = categorized

\* a Mega call with only customClasses unchecked removes the class name and
\* the background colour next to each other
C29_Witness ==
    /\ Classified
    /\ IsMega
    /\ ~ zapOptions.customClasses
    /\ \A c \in RemovableCategories \ { "customClasses" } : zapOptions[c]
    /\ Present = { "backgroundColor", "className" }
    /\ Removed = { "backgroundColor", "className" }
    /\ Kept = { }

\* C30: Mega removes at least what Selective removes: for the attribute map
\* and the keepMedia value of a Selective call, every key on its removed list
\* is on the removed list of the Mega call with the same flags; and checking
\* one more category in Selective mode takes no key off the removed list.
C30_MegaDominatesSelective ==
    (Classified /\ ~ IsMega) =>
        /\ Removed \subseteq RemovedKeys(Reclassified(TRUE, zapOptions))
        /\ \A c \in RemovableCategories :
              ~ zapOptions[c] =>
                  Removed \subseteq
                      RemovedKeys(Reclassified(FALSE, [ zapOptions EXCEPT ![c] = TRUE ]))

\* Selective with blockStyles checked removes the background colour and keeps
\* the class name; Mega removes both, and so does Selective with customClasses
\* checked as well
C30_Witness ==
    /\ Classified
    /\ ~ IsMega
    /\ zapOptions.blockStyles
    /\ ~ zapOptions.customClasses
    /\ Present = { "backgroundColor", "className" }
    /\ Removed = { "backgroundColor" }
    /\ RemovedKeys(Reclassified(TRUE, zapOptions)) = { "backgroundColor", "className" }
    /\ RemovedKeys(Reclassified(FALSE, [ zapOptions EXCEPT !.customClasses = TRUE ]))
         = { "backgroundColor", "className" }

(* ================= claims on the replacements and totals =============== *)

RECURSIVE SumRemovedLengths(_)

\* the sum of the lengths of the removedAttributes lists of detail entries
SumRemovedLengths(details) ==
    IF details = << >>
    THEN 0
    ELSE Len(Head(details).removedAttributes) + SumRemovedLengths(Tail(details))

\* C28: the report's arithmetic is consistent whatever the host's createBlock
\* returns, defaults added included: in every detail entry removed is the
\* length of removedAttributes and before = after + removed; totalZapped is
\* the number of entries; totalAttributesRemoved is the sum of the lengths of
\* the removedAttributes lists and is never negative.
C28_ReportArithmetic ==
    zapCount > 0 =>
        /\ \A d \in DOMAIN report.zapDetails :
              /\ report.zapDetails[d].removed
                   = Len(report.zapDetails[d].removedAttributes)
              /\ report.zapDetails[d].before
                   = report.zapDetails[d].after + report.zapDetails[d].removed
        /\ report.totalZapped = Len(report.zapDetails)
        /\ report.totalAttributesRemoved = SumRemovedLengths(report.zapDetails)
        /\ report.totalAttributesRemoved >= 0

\* the parts of C28 that do not compare a count with a list length
C28_CountsAlone ==
    zapCount > 0 =>
        /\ \A d \in DOMAIN report.zapDetails :
              /\ report.zapDetails[d].before
                   = report.zapDetails[d].after + report.zapDetails[d].removed
              /\ report.zapDetails[d].removed >= 0
        /\ report.totalZapped = Len(report.zapDetails)
        /\ report.totalAttributesRemoved >= 0
        /\ hostDefaults = NoDefaults =>
              /\ report.totalAttributesRemoved = SumRemovedLengths(report.zapDetails)
              /\ \A d \in DOMAIN report.zapDetails :
                    report.zapDetails[d].removed
                      = Len(report.zapDetails[d].removedAttributes)

(* ========================= claims on the editor ======================== *)

\* the clientIds of the blocks that stand directly in a block list
TopIds(blocks) ==
    { blocks[i].clientId : i \in { j \in DOMAIN blocks : ~ IsNull(blocks[j]) } }

\* C23: a zap affects only blocks inside the container: every replaceBlock
\* call of a zap names the clientId of a block that stands in the container's
\* own inner-block list, and the blocks of the document outside the container
\* are afterwards what they were.
C23_OnlyTheContainer ==
    [][ /\ outsideBlocks' = outsideBlocks
        /\ zapCount' # zapCount =>
              /\ ReplacedIds(replaceCalls') \subseteq TopIds(innerBlocks)
              /\ blocksArg' = innerBlocks ]_vars

\* after a zap that replaced a block of the container the styled paragraph
\* outside of it still holds the keys the same zap removes inside
C23_Witness ==
    /\ zapCount = 1
    /\ replaceCalls # << >>
    /\ innerBlocks # blocksArg
    /\ outsideBlocks = OutsideSample
    /\ StillRemovable(outsideBlocks[1]) # << >>

\* C24: the block remembers the last settings: after every change the
\* attributes saved on the block are the current option values, and mounting
\* the component again from the saved attributes restores the same seven
\* option values and the same zap mode.
C24_SettingsRemembered ==
    [][ /\ savedAttributes' = SavedFrom(zapOptions')
        /\ Remount => (zapOptions' = zapOptions /\ zapMode' = zapMode) ]_vars

\* the part of C24 on the seven options alone
C24_OptionsRemembered ==
    [][ /\ savedAttributes' = SavedFrom(zapOptions')
        /\ Remount => zapOptions' = zapOptions ]_vars

\* C25: the busy flag is always released: after handleZap has run, on
\* whichever path, isZapping is false.
C25_BusyFlagReleased == ~ isZapping

\* C26: with isZapping false the zap button is enabled exactly when
\* handleZap reaches zapBlocks: an invocation of handleZap calls zapBlocks if
\* and only if the button was not disabled, which is when the container holds
\* a block and, in Selective mode, one of the six category flags is true;
\* keepMedia does not count and in Mega mode the flags play no part.
C26_EnabledIffReachesZap ==
    [][ (~ isZapping /\ InvokeHandleZap) =>
            /\ zapCount' = zapCount + 1 <=> ~ getZapButtonProps.disabled
            /\ ~ getZapButtonProps.disabled <=>
                  /\ innerBlocks # << >>
                  /\ zapMode = "mega" \/ \E c \in RemovableCategories : zapOptions[c] ]_vars

\* handleZap was invoked in Selective mode with keepMedia as the only checked
\* box and a block in the container: it returned with the request to select
\* an option, without a zap, and the button is disabled
C26_Witness ==
    /\ zapMessage = "noOption"
    /\ zapCount = 0
    /\ zapMode = "selective"
    /\ zapOptions.keepMedia
    /\ ~ hasDestructiveOptions
    /\ blockCount > 0
    /\ getZapButtonProps.disabled

=============================================================================
